---- MODULE Spec2Model ----
(***************************************************************************)
(* The Michael-Scott lock-free queue of src/MichaelScottLockFreeQueue.cpp. *)
(*                                                                         *)
(* The heap is a finite set of node addresses.  `new Node` takes any       *)
(* address that is not allocated, `delete` gives the address back, so an   *)
(* address freed by a dequeue can be handed out again by a later enqueue.  *)
(* Every atomic load and every compare-exchange of enqueue/dequeue is one  *)
(* step of the calling thread; the steps are named after the source line   *)
(* of the atomic operation they perform (E97 = the load at line 97).       *)
(*                                                                         *)
(* Reading or writing a node that has been deleted is undefined behaviour: *)
(* the model lets such a load return either what the memory last held or   *)
(* the image of a freshly constructed cell, and lets such a                *)
(* compare-exchange either find its expected value or not.                 *)
(*                                                                         *)
(* Spec lets the threads call enqueue and dequeue in any order; MainSpec   *)
(* runs the lambda of main (lines 192-211) in every thread, with the       *)
(* unsynchronised counter the workers share, then the drain of main.       *)
(***************************************************************************)
EXTENDS Integers, Sequences, FiniteSets

\* ---------------------------------------------------------------- bounds
NumThreads == 2         \* threads that call enqueue/dequeue
NumAddr    == 3         \* node addresses the allocator can hand out
MaxCalls   == 4         \* calls started before the final drain
MaxVal     == 2         \* enqueued values are 1..MaxVal
ResultCount == 2        \* main's RESULT_COUNT (100 in the source), scaled down;
                        \* its THREAD_COUNT (10 in the source) is NumThreads

IntMax  == 2147483647   \* int is 32 bits wide
IntMin  == -IntMax - 1

Threads == 1..NumThreads
Addr    == 1..NumAddr
Values  == 1..MaxVal
Null    == 0            \* nullptr

\* The mark of a value field that no constructor has written (Node(){}, line 45).
Unwritten == -1

\* What an int that was never written may hold (two representatives of the
\* 2^32 possibilities: a zeroed page, and the largest value, whose increment
\* wraps).
UninitInts == {0, IntMax}

VARIABLES
  _head,      \* Queue::_head  (atomic<NodePointer>)
  _tail,      \* Queue::_tail  (atomic<NodePointer>)
  mem,        \* heap contents: address -> Node {value, next}
  live,       \* address -> TRUE while allocated (between new and delete)
  pc,         \* thread -> the step it executes next ("idle" between calls)
  node,       \* enqueue's local  node
  tail,       \* enqueue's / dequeue's local  tail
  next,       \* enqueue's / dequeue's local  next
  head,       \* dequeue's local  head
  result,     \* the caller's variable bound to dequeue's  T& result
  ret,        \* thread -> what its last call returned, if it was a dequeue and has returned
  ncalls,     \* thread -> calls it has started
  phase,      \* "run", then "drain" (main drains the queue), then "done"
  enqArgs,    \* history: the values passed to enqueue, in call order
  linked,     \* history: the values whose link CAS (line 107) succeeded, in order
  removed,    \* history: the results of successful head CASes (line 160), in order
  sawEmpty,   \* history: thread -> the queue was empty at some instant of its call
  casCount,   \* history: address -> successful CASes on that node's next field
  snapCas,    \* history: thread -> casCount of the cell when it loaded next (line 98)
  atCall,     \* history: thread -> what held when its call started
  counter,    \* main's  counter  (a plain int the workers share, line 184)
  wpc,        \* worker -> its position in the lambda of lines 192-211 ("off": not run)
  reg,        \* worker -> the value of counter it has read and not yet used
  results     \* main's  results  queue (line 185), as the sequence of its elements

vars == <<_head, _tail, mem, live, pc, node, tail, next, head, result, ret,
          ncalls, phase, enqArgs, linked, removed, sawEmpty, casCount, snapCas,
          atCall, counter, wpc, reg, results>>

demo == <<counter, wpc, reg, results>>

shared == <<_head, _tail, mem, live>>
locals == <<node, tail, next, head, result>>
hist   == <<enqArgs, linked, removed, casCount, snapCas>>

\* ------------------------------------------------------------ NodePointer
\* NodePointer(Node<T>* p, int c)
NodePointer(p, c) == [ptr |-> p, count |-> c]

\* operator==(const NodePointer&, const NodePointer&)
PtrEq(a, b) == a.ptr = b.ptr /\ a.count = b.count

\* count + 1 on a 32-bit int (the build wraps)
Inc(c) == IF c = IntMax THEN IntMin ELSE c + 1

\* Node(NodePointer np, T val)
Node(np, val) == [value |-> val, next |-> np]

\* The first address is the one the constructor's `new Node<T>()` returns.
Sentinel == 1

\* ------------------------------------------------------------------ heap
IsLive(a) == a \in Addr /\ live[a]

\* The outcomes of loading the next field of node a: of a deleted node, what the
\* memory last held or the next of a freshly constructed node.
LoadNext(a) ==
  IF IsLive(a) THEN {mem[a].next}
  ELSE (IF a \in Addr THEN {mem[a].next} ELSE {}) \cup {NodePointer(Null, 0)}

\* The outcomes of reading the value field of node a.
LoadValue(a) ==
  IF IsLive(a)
  THEN (IF mem[a].value = Unwritten THEN UninitInts ELSE {mem[a].value})
  ELSE (IF a \in Addr /\ mem[a].value # Unwritten THEN {mem[a].value} ELSE {})
       \cup {0}

\* The queue holds no element: the node _head points to has a null next.
Empty == mem[_head.ptr].next.ptr = Null

InDequeue == {"D134", "D135", "D136", "D139", "D151", "D157", "D160", "D170"}
InEnqueue == {"E97", "E98", "E101", "E107", "E115", "E121"}

\* History: a thread inside dequeue notes every instant at which the queue is empty.
Observe ==
  sawEmpty' = [u \in Threads |->
                 IF pc'[u] \in InDequeue
                 THEN (IF pc[u] = "idle" THEN Empty' ELSE sawEmpty[u] \/ Empty')
                 ELSE sawEmpty[u]]

\* ------------------------------------------------------------------ Init
\* Queue::Queue(): one node from Node(){} - value never written, next built by
\* NodePointer() : ptr(nullptr) {} which never writes count.
QueueInit ==
  /\ _head = NodePointer(Sentinel, 0)
  /\ _tail = NodePointer(Sentinel, 0)
  /\ \E g \in UninitInts :
       mem = [a \in Addr |-> Node(NodePointer(Null, IF a = Sentinel THEN g ELSE 0),
                                  Unwritten)]
  /\ live = [a \in Addr |-> a = Sentinel]
  /\ pc = [t \in Threads |-> "idle"]
  /\ node = [t \in Threads |-> Null]
  /\ tail = [t \in Threads |-> NodePointer(Null, 0)]
  /\ next = [t \in Threads |-> NodePointer(Null, 0)]
  /\ head = [t \in Threads |-> NodePointer(Null, 0)]
  /\ result = [t \in Threads |-> 0]
  /\ ret = [t \in Threads |-> "none"]
  /\ ncalls = [t \in Threads |-> 0]
  /\ phase = "run"
  /\ enqArgs = << >>
  /\ linked = << >>
  /\ removed = << >>
  /\ sawEmpty = [t \in Threads |-> FALSE]
  /\ casCount = [a \in Addr |-> 0]
  /\ snapCas = [t \in Threads |-> 0]
  /\ atCall = [t \in Threads |-> [result |-> 0, removed |-> 0, onEmpty |-> FALSE]]
  /\ counter = 0
  /\ reg = [t \in Threads |-> 0]
  /\ results = << >>

\* A queue that threads call in any way: the lambda of main is not run.
Init == QueueInit /\ wpc = [t \in Threads |-> "off"]

RECURSIVE Sum(_, _)
Sum(f, S) == IF S = {} THEN 0
             ELSE LET x == CHOOSE y \in S : TRUE IN f[x] + Sum(f, S \ {x})

CallsStarted == Sum(ncalls, Threads)

\* --------------------------------------------------------------- enqueue
\* lines 87-95: enqueue(val) is entered:
\*   auto node = new Node<T>(NodePointer<T>(nullptr, 0), val);
StartEnqueue(t, val) ==
  /\ pc[t] = "idle"
  /\ \E a \in Addr :
       /\ ~live[a]
       /\ live' = [live EXCEPT ![a] = TRUE]
       /\ mem' = [mem EXCEPT ![a] = Node(NodePointer(Null, 0), val)]
       /\ node' = [node EXCEPT ![t] = a]
  /\ pc' = [pc EXCEPT ![t] = "E97"]
  /\ ncalls' = [ncalls EXCEPT ![t] = @ + 1]
  /\ enqArgs' = Append(enqArgs, val)
  /\ ret' = [ret EXCEPT ![t] = "none"]
  /\ atCall' = [atCall EXCEPT ![t].onEmpty = Len(removed) = Len(enqArgs)]
  /\ UNCHANGED <<_head, _tail, tail, next, head, result, phase, linked, removed,
                 casCount, snapCas>>
  /\ Observe

\* A thread calls enqueue(val) with any value, while calls are left.
EnqueueCall(t, val) ==
  /\ phase = "run" /\ CallsStarted < MaxCalls
  /\ StartEnqueue(t, val)
  /\ UNCHANGED demo

\* line 97: tail = _tail.load();
E97(t) ==
  /\ pc[t] = "E97"
  /\ tail' = [tail EXCEPT ![t] = _tail]
  /\ pc' = [pc EXCEPT ![t] = "E98"]
  /\ UNCHANGED <<shared, node, next, head, result, ret, ncalls, phase, hist, atCall, demo>>
  /\ Observe

\* line 98: auto next = tail.ptr->next.load();
E98(t) ==
  /\ pc[t] = "E98"
  /\ \E n \in LoadNext(tail[t].ptr) : next' = [next EXCEPT ![t] = n]
  /\ pc' = [pc EXCEPT ![t] = "E101"]
  /\ snapCas' = [snapCas EXCEPT ![t] = IF tail[t].ptr \in Addr
                                        THEN casCount[tail[t].ptr] ELSE 0]
  /\ UNCHANGED <<shared, node, tail, head, result, ret, ncalls, phase,
                 enqArgs, linked, removed, casCount, atCall, demo>>
  /\ Observe

\* lines 101-104: if (tail == _tail.load()) { if (next.ptr == nullptr) ... else ... }
E101(t) ==
  /\ pc[t] = "E101"
  /\ pc' = [pc EXCEPT ![t] =
              IF PtrEq(tail[t], _tail)
              THEN (IF next[t].ptr = Null THEN "E107" ELSE "E115")
              ELSE "E97"]
  /\ UNCHANGED <<shared, locals, ret, ncalls, phase, hist, atCall, demo>>
  /\ Observe

\* atomic_compare_exchange_strong(obj, &expected, desired) on a cell holding cur:
\* whether it succeeded, what the cell holds afterwards, what expected holds afterwards.
CompareExchange(cur, expected, desired) ==
  IF PtrEq(cur, expected)
  THEN [ok |-> TRUE,  obj |-> desired, expected |-> expected]
  ELSE [ok |-> FALSE, obj |-> cur,     expected |-> cur]

\* The outcomes of a compare-exchange on the next field of node a.  On a deleted
\* node the cell holds what it last held or what another owner of the memory has
\* put there - a node of another queue on the same heap (main's `results`,
\* line 185) is constructed with next = (nullptr, 0) - so the cell may hold the
\* expected value again.
CasNext(a, expected, desired) ==
  IF IsLive(a) THEN {CompareExchange(mem[a].next, expected, desired)}
  ELSE {CompareExchange(expected, expected, desired)} \cup
       {CompareExchange(c, expected, desired) : c \in LoadNext(a)}

\* line 107: if (atomic_compare_exchange_strong(&tail.ptr->next, &next,
\*               NodePointer<T>(node, next.count + 1))) break;
E107(t) ==
  /\ pc[t] = "E107"
  /\ \E r \in CasNext(tail[t].ptr, next[t], NodePointer(node[t], Inc(next[t].count))) :
       /\ mem' = IF tail[t].ptr \in Addr
                 THEN [mem EXCEPT ![tail[t].ptr].next = r.obj] ELSE mem
       /\ next' = [next EXCEPT ![t] = r.expected]
       /\ pc' = [pc EXCEPT ![t] = IF r.ok THEN "E121" ELSE "E97"]
       /\ linked' = IF r.ok THEN Append(linked, mem[node[t]].value) ELSE linked
       /\ casCount' = IF r.ok /\ tail[t].ptr \in Addr
                      THEN [casCount EXCEPT ![tail[t].ptr] = @ + 1] ELSE casCount
  /\ UNCHANGED <<_head, _tail, live, node, tail, head, result, ret, ncalls, phase,
                 enqArgs, removed, snapCas, atCall, demo>>
  /\ Observe

\* Mutant of E115: the helping step is left out (a lagging tail is not advanced).
E115_NoHelp(t) ==
  /\ pc[t] = "E115"
  /\ pc' = [pc EXCEPT ![t] = "E97"]
  /\ UNCHANGED <<shared, locals, ret, ncalls, phase, hist, atCall, demo>>
  /\ Observe

\* line 115: atomic_compare_exchange_strong(&_tail, &tail,
\*               NodePointer<T>(next.ptr, tail.count + 1));
E115(t) ==
  /\ pc[t] = "E115"
  /\ LET r == CompareExchange(_tail, tail[t],
                              NodePointer(next[t].ptr, Inc(tail[t].count)))
     IN  /\ _tail' = r.obj
         /\ tail' = [tail EXCEPT ![t] = r.expected]
  /\ pc' = [pc EXCEPT ![t] = "E97"]
  /\ UNCHANGED <<_head, mem, live, node, next, head, result, ret, ncalls, phase, hist,
                 atCall, demo>>
  /\ Observe

\* lines 121-124: atomic_compare_exchange_strong(&_tail, &tail,
\*               NodePointer<T>(node, tail.count + 1)); return *this;
E121(t) ==
  /\ pc[t] = "E121"
  /\ LET r == CompareExchange(_tail, tail[t],
                              NodePointer(node[t], Inc(tail[t].count)))
     IN  /\ _tail' = r.obj
         /\ tail' = [tail EXCEPT ![t] = r.expected]
  /\ pc' = [pc EXCEPT ![t] = "idle"]
  /\ UNCHANGED <<_head, mem, live, node, next, head, result, ret, ncalls, phase, hist,
                 atCall, demo>>
  /\ Observe

\* --------------------------------------------------------------- dequeue
\* lines 127-132: dequeue(result) is entered.
StartDequeue(t) ==
  /\ pc[t] = "idle"
  /\ pc' = [pc EXCEPT ![t] = "D134"]
  /\ ret' = [ret EXCEPT ![t] = "none"]
  /\ ncalls' = [ncalls EXCEPT ![t] = @ + 1]
  /\ atCall' = [atCall EXCEPT ![t].result = result[t], ![t].removed = Len(removed)]
  /\ UNCHANGED <<shared, locals, phase, hist>>
  /\ Observe

\* A thread calls dequeue(result), while calls are left.
DequeueCall(t) ==
  /\ phase = "run" /\ CallsStarted < MaxCalls
  /\ StartDequeue(t)
  /\ UNCHANGED demo

\* line 134: head = _head.load();
D134(t) ==
  /\ pc[t] = "D134"
  /\ head' = [head EXCEPT ![t] = _head]
  /\ pc' = [pc EXCEPT ![t] = "D135"]
  /\ UNCHANGED <<shared, node, tail, next, result, ret, ncalls, phase, hist, atCall, demo>>
  /\ Observe

\* line 135: auto tail = _tail.load();
D135(t) ==
  /\ pc[t] = "D135"
  /\ tail' = [tail EXCEPT ![t] = _tail]
  /\ pc' = [pc EXCEPT ![t] = "D136"]
  /\ UNCHANGED <<shared, node, next, head, result, ret, ncalls, phase, hist, atCall, demo>>
  /\ Observe

\* line 136: auto next = head.ptr->next.load();
D136(t) ==
  /\ pc[t] = "D136"
  /\ \E n \in LoadNext(head[t].ptr) : next' = [next EXCEPT ![t] = n]
  /\ pc' = [pc EXCEPT ![t] = "D139"]
  /\ UNCHANGED <<shared, node, tail, head, result, ret, ncalls, phase, hist, atCall, demo>>
  /\ Observe

\* Mutant of D139: a failed re-check retries without loading _head again.
D139_StaleRetry(t) ==
  /\ pc[t] = "D139"
  /\ LET empty == /\ PtrEq(head[t], _head)
                  /\ head[t].ptr = tail[t].ptr
                  /\ next[t].ptr = Null
     IN  /\ pc' = [pc EXCEPT ![t] =
                     IF ~PtrEq(head[t], _head) THEN "D135"
                     ELSE IF head[t].ptr # tail[t].ptr THEN "D157"
                     ELSE IF next[t].ptr = Null THEN "idle"
                     ELSE "D151"]
         /\ ret' = [ret EXCEPT ![t] = IF empty THEN "false" ELSE @]
         /\ phase' = IF empty /\ phase = "drain" THEN "done" ELSE phase
  /\ UNCHANGED <<shared, locals, ncalls, hist, atCall, demo>>
  /\ Observe

\* Mutant of D139: the queue counts as empty only when next is exactly (nullptr, 0).
D139_NullByEq(t) ==
  /\ pc[t] = "D139"
  /\ LET empty == /\ PtrEq(head[t], _head)
                  /\ head[t].ptr = tail[t].ptr
                  /\ PtrEq(next[t], NodePointer(Null, 0))
     IN  /\ pc' = [pc EXCEPT ![t] =
                     IF ~PtrEq(head[t], _head) THEN "D134"
                     ELSE IF head[t].ptr # tail[t].ptr THEN "D157"
                     ELSE IF empty THEN "idle"
                     ELSE "D151"]
         /\ ret' = [ret EXCEPT ![t] = IF empty THEN "false" ELSE @]
         /\ phase' = IF empty /\ phase = "drain" THEN "done" ELSE phase
  /\ UNCHANGED <<shared, locals, ncalls, hist, atCall, demo>>
  /\ Observe

\* Mutant of D139: the test for the empty queue (lines 145-148) is left out.
D139_NoEmptyCheck(t) ==
  /\ pc[t] = "D139"
  /\ pc' = [pc EXCEPT ![t] =
              IF ~PtrEq(head[t], _head) THEN "D134"
              ELSE IF head[t].ptr # tail[t].ptr THEN "D157"
              ELSE "D151"]
  /\ UNCHANGED <<shared, locals, ret, ncalls, phase, hist, atCall, demo>>
  /\ Observe

\* Mutant of D139: a dequeue that finds the queue empty clears result.
D139_ClearResult(t) ==
  /\ pc[t] = "D139"
  /\ LET empty == /\ PtrEq(head[t], _head)
                  /\ head[t].ptr = tail[t].ptr
                  /\ next[t].ptr = Null
     IN  /\ pc' = [pc EXCEPT ![t] =
                     IF ~PtrEq(head[t], _head) THEN "D134"
                     ELSE IF head[t].ptr # tail[t].ptr THEN "D157"
                     ELSE IF next[t].ptr = Null THEN "idle"
                     ELSE "D151"]
         /\ ret' = [ret EXCEPT ![t] = IF empty THEN "false" ELSE @]
         /\ phase' = IF empty /\ phase = "drain" THEN "done" ELSE phase
         /\ result' = [result EXCEPT ![t] = IF empty THEN 0 ELSE @]
  /\ UNCHANGED <<shared, node, tail, next, head, ncalls, hist, atCall, demo>>
  /\ Observe

\* lines 139-148: if (head == _head.load()) { if (head.ptr == tail.ptr) {
\*                  if (next.ptr == nullptr) return false; ... } else ... }
D139(t) ==
  /\ pc[t] = "D139"
  /\ LET empty == /\ PtrEq(head[t], _head)
                  /\ head[t].ptr = tail[t].ptr
                  /\ next[t].ptr = Null
     IN  /\ pc' = [pc EXCEPT ![t] =
                     IF ~PtrEq(head[t], _head) THEN "D134"
                     ELSE IF head[t].ptr # tail[t].ptr THEN "D157"
                     ELSE IF next[t].ptr = Null THEN "idle"
                     ELSE "D151"]
         /\ ret' = [ret EXCEPT ![t] = IF empty THEN "false" ELSE @]
         /\ phase' = IF empty /\ phase = "drain" THEN "done" ELSE phase
  /\ UNCHANGED <<shared, locals, ncalls, hist, atCall, demo>>
  /\ Observe

\* line 151: atomic_compare_exchange_strong(&_tail, &tail,
\*               NodePointer<T>(next.ptr, tail.count + 1));
D151(t) ==
  /\ pc[t] = "D151"
  /\ LET r == CompareExchange(_tail, tail[t],
                              NodePointer(next[t].ptr, Inc(tail[t].count)))
     IN  /\ _tail' = r.obj
         /\ tail' = [tail EXCEPT ![t] = r.expected]
  /\ pc' = [pc EXCEPT ![t] = "D134"]
  /\ UNCHANGED <<_head, mem, live, node, next, head, result, ret, ncalls, phase, hist,
                 atCall, demo>>
  /\ Observe

\* Mutant of D157: the value is read from the old dummy node, not from its successor.
D157_ReadHead(t) ==
  /\ pc[t] = "D157"
  /\ \E v \in LoadValue(head[t].ptr) : result' = [result EXCEPT ![t] = v]
  /\ pc' = [pc EXCEPT ![t] = "D160"]
  /\ UNCHANGED <<shared, node, tail, next, head, ret, ncalls, phase, hist, atCall, demo>>
  /\ Observe

\* line 157: result = next.ptr->value;
D157(t) ==
  /\ pc[t] = "D157"
  /\ \E v \in LoadValue(next[t].ptr) : result' = [result EXCEPT ![t] = v]
  /\ pc' = [pc EXCEPT ![t] = "D160"]
  /\ UNCHANGED <<shared, node, tail, next, head, ret, ncalls, phase, hist, atCall, demo>>
  /\ Observe

\* Mutant of D160: the head CAS installs the old dummy again, not its successor.
D160_KeepHead(t) ==
  /\ pc[t] = "D160"
  /\ LET r == CompareExchange(_head, head[t],
                              NodePointer(head[t].ptr, Inc(head[t].count)))
     IN  /\ _head' = r.obj
         /\ head' = [head EXCEPT ![t] = r.expected]
         /\ pc' = [pc EXCEPT ![t] = IF r.ok THEN "D170" ELSE "D134"]
         /\ removed' = IF r.ok THEN Append(removed, result[t]) ELSE removed
  /\ UNCHANGED <<_tail, mem, live, node, tail, next, result, ret, ncalls, phase,
                 enqArgs, linked, casCount, snapCas, atCall, demo>>
  /\ Observe

\* line 160: if (atomic_compare_exchange_strong(&_head, &head,
\*               NodePointer<T>(next.ptr, head.count + 1))) break;
D160(t) ==
  /\ pc[t] = "D160"
  /\ LET r == CompareExchange(_head, head[t],
                              NodePointer(next[t].ptr, Inc(head[t].count)))
     IN  /\ _head' = r.obj
         /\ head' = [head EXCEPT ![t] = r.expected]
         /\ pc' = [pc EXCEPT ![t] = IF r.ok THEN "D170" ELSE "D134"]
         /\ removed' = IF r.ok THEN Append(removed, result[t]) ELSE removed
  /\ UNCHANGED <<_tail, mem, live, node, tail, next, result, ret, ncalls, phase,
                 enqArgs, linked, casCount, snapCas, atCall, demo>>
  /\ Observe

\* Mutant of D170: the new dummy node is deleted, not the old one.
D170_FreeNext(t) ==
  /\ pc[t] = "D170"
  /\ live' = IF next[t].ptr \in Addr THEN [live EXCEPT ![next[t].ptr] = FALSE] ELSE live
  /\ pc' = [pc EXCEPT ![t] = "idle"]
  /\ ret' = [ret EXCEPT ![t] = "true"]
  /\ UNCHANGED <<_head, _tail, mem, locals, ncalls, phase, hist, atCall, demo>>
  /\ Observe

\* Mutant of D170: the delete is left out (the old dummy node leaks).
D170_NoDelete(t) ==
  /\ pc[t] = "D170"
  /\ pc' = [pc EXCEPT ![t] = "idle"]
  /\ ret' = [ret EXCEPT ![t] = "true"]
  /\ UNCHANGED <<shared, locals, ncalls, phase, hist, atCall, demo>>
  /\ Observe

\* lines 170-173: delete head.ptr; return true;
D170(t) ==
  /\ pc[t] = "D170"
  /\ live' = IF head[t].ptr \in Addr THEN [live EXCEPT ![head[t].ptr] = FALSE] ELSE live
  /\ pc' = [pc EXCEPT ![t] = "idle"]
  /\ ret' = [ret EXCEPT ![t] = "true"]
  /\ UNCHANGED <<_head, _tail, mem, locals, ncalls, phase, hist, atCall, demo>>
  /\ Observe

\* ------------------------------------------------------------------ main
\* The thread that runs main; in the model it is also one of the callers.
MainThread == 1

\* lines 215-219: every worker has returned (futures[i].get()).
Join ==
  /\ phase = "run"
  /\ \A t \in Threads : pc[t] = "idle"
  /\ phase' = "drain"
  /\ UNCHANGED <<shared, pc, locals, ret, ncalls, hist, atCall, demo>>
  /\ Observe

\* line 231: while (q.dequeue(numberToPrint)) - one more dequeue call of the drain
DrainCall ==
  /\ phase = "drain"
  /\ StartDequeue(MainThread)
  /\ UNCHANGED demo

\* One step of thread t inside a call.
Body(t) ==
  \/ E97(t) \/ E98(t) \/ E101(t) \/ E107(t) \/ E115(t) \/ E121(t)
  \/ D134(t) \/ D135(t) \/ D136(t) \/ D139(t) \/ D151(t)
  \/ D157(t) \/ D160(t) \/ D170(t)

Next ==
  \/ \E t \in Threads :
       \/ \E val \in Values : EnqueueCall(t, val)
       \/ DequeueCall(t)
       \/ Body(t)
  \/ Join
  \/ DrainCall

Spec == Init /\ [][Next]_vars

\* Some thread that is inside a call takes a step (no thread in particular).
LockFreeSpec == Spec /\ WF_vars(\E t \in Threads : Body(t))

\* Every thread that is inside a call keeps being scheduled.
FairSpec == Spec /\ \A t \in Threads : WF_vars(Body(t))

\* ------------------------------------------------------ main's workers
\* The lambda of lines 192-211, run by every worker.  counter is a plain int
\* captured by reference: its reads and writes are separate steps of the worker,
\* and counter++ is a read followed by a write of the value read plus one.  The
\* second queue, results, is kept as the sequence of the values put into it.

\* lines 183-190: q, counter and results are constructed, the workers are spawned.
MainInit == QueueInit /\ wpc = [t \in Threads |-> "W196"]

\* line 196: while (counter < RESULT_COUNT)
W196(t) ==
  /\ wpc[t] = "W196" /\ pc[t] = "idle"
  /\ wpc' = [wpc EXCEPT ![t] = IF counter < ResultCount THEN "W198r" ELSE "end"]
  /\ UNCHANGED <<shared, pc, locals, ret, ncalls, phase, hist, atCall,
                 counter, reg, results>>
  /\ Observe

\* line 198, counter++ : the read of counter
W198r(t) ==
  /\ wpc[t] = "W198r"
  /\ reg' = [reg EXCEPT ![t] = counter]
  /\ wpc' = [wpc EXCEPT ![t] = "W198w"]
  /\ UNCHANGED <<shared, pc, locals, ret, ncalls, phase, hist, atCall,
                 counter, results>>
  /\ Observe

\* line 198, q.enqueue(counter++) : the write of counter, then the call with the
\* value read
W198w(t) ==
  /\ wpc[t] = "W198w"
  /\ counter' = reg[t] + 1
  /\ StartEnqueue(t, reg[t])
  /\ wpc' = [wpc EXCEPT ![t] = "W200"]
  /\ UNCHANGED <<reg, results>>

\* line 200: while (counter % 2 != 0 && q.dequeue(result)) - the test of counter
\* and, when it is odd, the call
W200(t) ==
  /\ wpc[t] = "W200" /\ pc[t] = "idle"
  /\ \/ /\ counter % 2 # 0
        /\ StartDequeue(t)
        /\ wpc' = [wpc EXCEPT ![t] = "W202"]
     \/ /\ counter % 2 = 0
        /\ wpc' = [wpc EXCEPT ![t] = "W196"]
        /\ UNCHANGED <<shared, pc, locals, ret, ncalls, phase, hist, atCall>>
        /\ Observe
  /\ UNCHANGED <<counter, reg, results>>

\* lines 200-202: the dequeue has returned; on true  results.enqueue(result);
W202(t) ==
  /\ wpc[t] = "W202" /\ pc[t] = "idle"
  /\ results' = IF ret[t] = "true" THEN Append(results, result[t]) ELSE results
  /\ wpc' = [wpc EXCEPT ![t] = IF ret[t] = "true" THEN "W200" ELSE "W196"]
  /\ UNCHANGED <<shared, pc, locals, ret, ncalls, phase, hist, atCall, counter, reg>>
  /\ Observe

\* lines 215-227: every future is ready; main prints what results holds.
WorkersJoin ==
  /\ phase = "run"
  /\ \A t \in Threads : wpc[t] = "end"
  /\ phase' = "drain"
  /\ UNCHANGED <<shared, pc, locals, ret, ncalls, hist, atCall, demo>>
  /\ Observe

MainNext ==
  \/ \E t \in Threads :
       \/ W196(t) \/ W198r(t) \/ W198w(t) \/ W200(t) \/ W202(t)
       \/ Body(t)
  \/ WorkersJoin
  \/ DrainCall

\* The program main.
MainSpec == MainInit /\ [][MainNext]_vars

\* ============================================================== properties
\* How often v occurs in the sequence s.
Count(s, v) == Cardinality({i \in 1..Len(s) : s[i] = v})

\* The sequences s and r hold the same values the same number of times.
SameBag(s, r) ==
  \A v \in {s[i] : i \in 1..Len(s)} \cup {r[i] : i \in 1..Len(r)} :
     Count(s, v) = Count(r, v)

IsPrefix(s, r) == Len(s) <= Len(r) /\ \A i \in 1..Len(s) : s[i] = r[i]

\* The node a thread is about to dereference, if its next step dereferences one.
Deref(t) ==
  IF pc[t] \in {"E98", "E107"} THEN {tail[t].ptr}
  ELSE IF pc[t] = "D136" THEN {head[t].ptr}
  ELSE IF pc[t] = "D157" THEN {next[t].ptr}
  ELSE {}

\* C1 - no loss, no duplication: once every thread has finished and the drain's
\* dequeue has returned false, the values returned by successful dequeues are, as
\* a multiset, exactly the values passed to enqueue.
C1_NoLossNoDuplication ==
  phase = "done" => SameBag(removed, enqArgs)

\* C2 - FIFO per link order: the results of successful dequeues, in the order of
\* their head CASes, are a prefix of the enqueued values in the order of their
\* link CASes.
C2_FifoPerLinkOrder ==
  IsPrefix(removed, linked)

\* C3 - no use after reclamation: whenever a thread is about to load a node's next
\* field (lines 98, 136), read its value (line 157) or CAS its next field
\* (line 107), that node is allocated.
C3_NoUseAfterFree ==
  \A t \in Threads : \A a \in Deref(t) : IsLive(a)

\* C4 - linearizable dequeue result: a dequeue that returned false saw the queue
\* empty at some instant of the call, and the k-th successful dequeue (by head
\* CAS) returned the value of the k-th linked node, the oldest linked node that
\* no dequeue had removed.
C4_LinearizableDequeue ==
  /\ \A t \in Threads : pc[t] = "idle" /\ ret[t] = "false" => sawEmpty[t]
  /\ \A k \in 1..Len(removed) : k <= Len(linked) /\ removed[k] = linked[k]

\* The threads that are inside a call.
Busy == {t \in Threads : pc[t] # "idle"}

\* The compare-exchange of line 107 can fail for thread t.
LinkCasCanFail(t) ==
  \E r \in CasNext(tail[t].ptr, next[t], NodePointer(node[t], Inc(next[t].count))) :
     ~r.ok

\* A failing head CAS or head re-check, tail re-check or link CAS of thread t was
\* preceded, after t's snapshot of the cell, by a successful CAS on that cell.
CasFailureCause ==
  \A t \in Threads :
    /\ (pc[t] \in {"D139", "D160"} /\ ~PtrEq(head[t], _head))
          => _head.count > head[t].count
    /\ (pc[t] = "E101" /\ ~PtrEq(tail[t], _tail))
          => _tail.count > tail[t].count
    /\ (pc[t] = "E107" /\ LinkCasCanFail(t))
          => casCount[tail[t].ptr] > snapCas[t]

\* Whenever some threads are inside a call, the call of one of them returns.
Progress ==
  \A S \in (SUBSET Threads) \ {{}} : (Busy = S) ~> (\E t \in S : pc[t] = "idle")

\* C5 - lock-freedom: while some thread inside a call keeps taking steps, some
\* call completes; and a CAS or re-check fails only after another thread's CAS
\* on the same cell succeeded since the snapshot.
C5_LockFreedom ==
  []CasFailureCause /\ Progress

\* C5 witness: a thread is about to fail its link CAS on an allocated node while
\* another thread is inside a call too.
C5_Witness ==
  \E t \in Threads :
    /\ pc[t] = "E107" /\ IsLive(tail[t].ptr)
    /\ ~PtrEq(mem[tail[t].ptr].next, next[t])
    /\ Busy # {t}

\* C6 - termination: with every thread scheduled fairly, every call returns.
C6_Termination ==
  \A t \in Threads : (pc[t] # "idle") ~> (pc[t] = "idle")

\* C6 witness: a thread has returned from its only call, an enqueue whose final
\* tail CAS (line 121) failed because another thread had swung tail to its node.
C6_Witness ==
  \E t \in Threads :
    /\ pc[t] = "idle" /\ ncalls[t] = 1 /\ ret[t] = "none"
    /\ node[t] # Null /\ tail[t].ptr = node[t]

\* Only the main thread has made calls: the queue is used sequentially.
Solo == \A u \in Threads \ {MainThread} : ncalls[u] = 0

\* C7 - FIFO under sequential use: the dequeued values are the enqueued values in
\* their order; a dequeue returns false only when every enqueued value has been
\* returned, and returns the value it removed.
C7_SequentialFifo ==
  Solo =>
    /\ IsPrefix(removed, enqArgs)
    /\ (pc[MainThread] = "idle" /\ ret[MainThread] = "false") => removed = enqArgs
    /\ (pc[MainThread] = "idle" /\ ret[MainThread] = "true")
          => Len(removed) > 0 /\ result[MainThread] = enqArgs[Len(removed)]

\* C7 witness: 1 and 2 were enqueued, two dequeues returned 1 and 2, the third
\* returned false.
C7_Witness ==
  /\ Solo /\ enqArgs = <<1, 2>> /\ removed = <<1, 2>>
  /\ ncalls[MainThread] = 5
  /\ pc[MainThread] = "idle" /\ ret[MainThread] = "false"

\* C8 - construction: before any call, head and tail are (sentinel, 0) and the
\* sentinel's next is exactly (null, 0).
C8_Constructed ==
  CallsStarted = 0 =>
    /\ _head = NodePointer(Sentinel, 0)
    /\ _tail = NodePointer(Sentinel, 0)
    /\ mem[Sentinel].next = NodePointer(Null, 0)

\* No enqueue has ever started on the queue.
Fresh == enqArgs = << >>

\* C9 - empty start: as long as no enqueue has started, a dequeue leaves head,
\* tail and the heap alone, and its test at line 139 returns false at once.
C9_EmptyStart ==
  [][Fresh' =>
       /\ UNCHANGED <<_head, _tail, mem, live>>
       /\ \A t \in Threads :
            pc[t] = "D139" /\ pc'[t] # "D139"
               => pc'[t] = "idle" /\ ret'[t] = "false"]_vars

\* C9 witness: a dequeue on the fresh queue has returned false.
C9_Witness ==
  /\ Fresh
  /\ \E t \in Threads : pc[t] = "idle" /\ ncalls[t] > 0 /\ ret[t] = "false"

\* Every enqueued value has been dequeued and no enqueue is in progress (nor a
\* dequeue that has removed a value and not yet returned).
Emptied ==
  /\ \A t \in Threads : pc[t] \notin InEnqueue /\ pc[t] # "D170"
  /\ SameBag(removed, enqArgs)

\* C10 - idempotent emptiness: a step of a dequeue on an emptied queue changes
\* neither head nor tail nor any next field, and when it returns, it returns false.
C10_IdempotentEmpty ==
  [][\A t \in Threads :
       (Emptied /\ pc[t] \in InDequeue /\ pc'[t] # pc[t])
          => /\ _head' = _head /\ _tail' = _tail
             /\ \A a \in Addr : mem'[a].next = mem[a].next
             /\ pc'[t] = "idle" => ret'[t] = "false"]_vars

\* C10 witness: after values went through the queue, two dequeues in a row have
\* returned false on the emptied queue.
C10_Witness ==
  /\ Emptied /\ Len(enqArgs) > 0
  /\ \A t \in Threads : pc[t] = "idle" /\ ret[t] = "false"

C12_DemoScenario ==
  /\ \A i, j \in 1..Len(enqArgs) : i # j => enqArgs[i] # enqArgs[j]
  /\ \A i \in 1..Len(enqArgs) : enqArgs[i] \in 0..(ResultCount - 1)
  /\ phase = "done" =>
       /\ {enqArgs[i] : i \in 1..Len(enqArgs)} = 0..(ResultCount - 1)
       /\ SameBag(removed, [i \in 1..ResultCount |-> i - 1])

\* The addresses met by following next pointers from address a, at most k of them.
RECURSIVE ChainFrom(_, _)
ChainFrom(a, k) ==
  IF a \notin Addr \/ k = 0 THEN << >>
  ELSE <<a>> \o ChainFrom(mem[a].next.ptr, k - 1)

\* The list of the queue: the nodes met from the node _head points to (a list
\* with a cycle shows as a sequence longer than the heap).
Chain == ChainFrom(_head.ptr, NumAddr + 1)

InChain(a) == \E i \in 1..Len(Chain) : Chain[i] = a

\* The last node of the list.
Last == Chain[Len(Chain)]

\* C13 - link only at the true end: whenever the link CAS of line 107 succeeds,
\* the node it writes to is allocated and is the last node of the list reachable
\* from head, and after the CAS the new node is reachable from head.
C13_LinkAtTrueEnd ==
  [][\A t \in Threads :
       (pc[t] = "E107" /\ pc'[t] = "E121")
          => /\ IsLive(tail[t].ptr)
             /\ Last = tail[t].ptr
             /\ InChain(node[t])']_vars

\* C14 - ABA detection: a link CAS (line 107) succeeds only if no CAS wrote the
\* next cell after the thread loaded it (line 98); a tail CAS (lines 115, 121,
\* 151) or head CAS (line 160) succeeds only on the generation the thread's
\* snapshot holds.
C14_AbaDetection ==
  [][\A t \in Threads :
       /\ (pc[t] = "E107" /\ pc'[t] = "E121" /\ tail[t].ptr \in Addr)
             => casCount[tail[t].ptr] = snapCas[t]
       /\ (pc[t] \in {"E115", "E121", "D151"} /\ _tail' # _tail)
             => PtrEq(tail[t], _tail)
       /\ (pc[t] = "D160" /\ _head' # _head)
             => PtrEq(head[t], _head)]_vars

\* C15 - value read from a live successor: whenever a dequeue is about to read
\* next.ptr->value (line 157), next.ptr is allocated and is a node of the list
\* reachable from head.
C15_ValueFromLiveSuccessor ==
  \A t \in Threads :
     pc[t] = "D157" => IsLive(next[t].ptr) /\ InChain(next[t].ptr)

\* C16 - tail-lag invariant: in every state tail.ptr is a node of the list
\* reachable from head, and it is the last node or the one before the last.
C16_TailLag ==
  \E i \in 1..Len(Chain) :
     /\ Chain[i] = _tail.ptr
     /\ i >= Len(Chain) - 1

\* C17 - list shape: the nodes met by following next from the node head points
\* to are distinct and allocated, and the walk ends at a null next.
C17_ListShape ==
  /\ Len(Chain) <= NumAddr
  /\ \A i, j \in 1..Len(Chain) : i # j => Chain[i] # Chain[j]
  /\ \A i \in 1..Len(Chain) : IsLive(Chain[i])
  /\ Len(Chain) > 0 /\ mem[Last].next.ptr = Null

\* C17 witness: after one dequeue the list holds three nodes again, one of them
\* at the address of the deleted sentinel.
C17_Witness ==
  /\ Len(Chain) = 3 /\ Len(removed) = 1
  /\ InChain(Sentinel) /\ _head.ptr # Sentinel

\* The position of address a in the list reachable from head, 0 when it is not
\* in the list.
Pos(a) ==
  IF InChain(a) THEN CHOOSE i \in 1..Len(Chain) : Chain[i] = a ELSE 0

\* C18 - final tail swing: when the tail CAS of line 121 fails, tail already
\* points to the node this call linked or to a node behind it; so when an
\* enqueue returns, tail does not point to a node that precedes the call's node.
C18_FinalTailSwing ==
  [][\A t \in Threads :
       (pc[t] = "E121" /\ pc'[t] = "idle" /\ InChain(node[t])')
          => Pos(_tail.ptr)' >= Pos(node[t])']_vars

\* The allocated nodes.
Allocated == {a \in Addr : live[a]}

\* The threads whose enqueue has not yet linked its node.
Unlinked == {t \in Threads : pc[t] \in InEnqueue \ {"E121"}}

\* The threads whose dequeue has advanced head and not yet deleted the old node.
Deleting == {t \in Threads : pc[t] = "D170"}

\* The steps of thread t account for every allocation and every delete.
Lifecycle(t) ==
  /\ (pc[t] = "idle" /\ pc'[t] = "E97")
        => /\ ~live[node'[t]] /\ live' = [live EXCEPT ![node'[t]] = TRUE]
  /\ (pc[t] = "D160" /\ pc'[t] = "D170")
        => head'[t].ptr = _head.ptr
  /\ (pc[t] = "D170" /\ pc'[t] = "idle")
        => /\ live[head[t].ptr] /\ live' = [live EXCEPT ![head[t].ptr] = FALSE]
           /\ ~InChain(head[t].ptr)
           /\ ret'[t] = "true"
  /\ (pc[t] # "idle" /\ pc'[t] = "idle" /\ ret'[t] = "false") => live' = live

\* C19 - node lifecycle accounting: an enqueue call allocates one node and links
\* it once; a dequeue that returns true deletes one node, the one head pointed to
\* before its head CAS, which is allocated and no longer reachable from head; no
\* other step allocates or deletes; and the allocated nodes number
\* 1 + enqueue calls - dequeues that returned true.
C19_NodeLifecycle ==
  /\ [](/\ Len(linked) = Len(enqArgs) - Cardinality(Unlinked)
        /\ Cardinality(Allocated)
             = 1 + Len(enqArgs) - (Len(removed) - Cardinality(Deleting)))
  /\ [][/\ \A t \in Threads : Lifecycle(t)
        /\ live' # live
             => \E t \in Threads : pc[t] \in {"idle", "D170"} /\ pc'[t] # pc[t]]_vars

\* C19 witness: two enqueues and two dequeues, made by both threads, have
\* returned; the two deleted nodes are gone and one node is left, the dummy.
C19_Witness ==
  /\ \A t \in Threads : pc[t] = "idle" /\ ncalls[t] > 0
  /\ Len(enqArgs) = 2 /\ Len(removed) = 2
  /\ Allocated = {_head.ptr}

\* C20 as claimed - a failed dequeue leaves the out-parameter untouched: whenever
\* a dequeue has returned false, result holds the value it held at the call.
C20_ResultUntouched ==
  \A t \in Threads :
     (pc[t] = "idle" /\ ret[t] = "false") => result[t] = atCall[t].result

\* C20 amended - whenever a dequeue has returned false and no head CAS succeeded
\* between its call and its return, result holds the value it held at the call.
C20_ResultUntouchedQuiet ==
  \A t \in Threads :
     (pc[t] = "idle" /\ ret[t] = "false" /\ atCall[t].removed = Len(removed))
        => result[t] = atCall[t].result

\* C20 witness: a thread whose result held 1 from an earlier dequeue has got
\* false from a dequeue while another thread is inside a call; result is still 1.
C20_Witness ==
  \E t \in Threads :
     /\ pc[t] = "idle" /\ ret[t] = "false" /\ atCall[t].removed = Len(removed)
     /\ atCall[t].result = 1 /\ result[t] = 1
     /\ Busy # {}

====
